---- MODULE Spec2Model ----
(***************************************************************************)
(* Model of src/src/main.py: the asynchronous HMMT archive scraper.        *)
(*                                                                         *)
(* One asyncio event loop runs the main coroutine scrape() and the         *)
(* download_file tasks it creates.  A step of the model is what one        *)
(* coroutine does between two suspension points (awaits that really        *)
(* suspend).  Strings are sequences of tokens (single characters where     *)
(* the code looks at characters), so that basename, splitext, lower,       *)
(* endswith and urljoin are computed, not assumed.                         *)
(***************************************************************************)
EXTENDS Integers, Sequences, FiniteSets, Bags, TLC

(***************************************************************************)
(* Bounds of the model.                                                    *)
(***************************************************************************)
\* Most anchors inside the content div of one served page.
MaxLinks == 2
\* Capacity of the limiter.  main.py:51 sets CONCURRENT_REQUESTS = 10; the
\* model runs the same semaphore with a smaller capacity, so that the site
\* below has more targets than the limiter has slots.
CONCURRENT_REQUESTS == 1

(***************************************************************************)
(* Program constants.                                                      *)
(***************************************************************************)
STOP_ATTEMPTS == 5      \* stop_after_attempt(5)
WAIT_MULTIPLIER == 1    \* wait_exponential(multiplier=1, ...)
WAIT_MIN == 1           \* wait_exponential(..., min=1, ...)
WAIT_MAX == 10          \* wait_exponential(..., max=10)
SUFFIX_LENGTH == 12     \* random_string(12)

HOST == "https://www.hmmt.org"
BASE_URL == <<HOST, "/", "www", "/", "archive", "/", "problems">>
OUTPUT_DIR == <<"downloaded_pdfs">>

(***************************************************************************)
(* Helpers on sequences.                                                   *)
(***************************************************************************)
Range(s) == {s[i] : i \in 1..Len(s)}

SeqsUpTo(S, n) == UNION {[1..k -> S] : k \in 0..n}

Min(a, b) == IF a <= b THEN a ELSE b

Max(a, b) == IF a >= b THEN a ELSE b

RECURSIVE Pow2(_)
Pow2(n) == IF n <= 0 THEN 1 ELSE 2 * Pow2(n - 1)

\* Index of the last occurrence of token c in s, 0 when there is none.
LastIndexOf(s, c) ==
    LET hits == {i \in 1..Len(s) : s[i] = c}
    IN  IF hits = {} THEN 0 ELSE CHOOSE i \in hits : \A j \in hits : j <= i

(***************************************************************************)
(* String functions of the standard library, as main.py uses them.         *)
(***************************************************************************)
\* str.lower on one token.
LowerToken(c) ==
    CASE c = "P" -> "p"
      [] c = "D" -> "d"
      [] c = "F" -> "f"
      [] OTHER -> c

\* Mutant of lower: the case is left as it is.
not_lowered(s) == s

\* url.lower()
lower(s) == [i \in 1..Len(s) |-> LowerToken(s[i])]

\* s.endswith(suffix)
endswith(s, suffix) ==
    /\ Len(s) >= Len(suffix)
    /\ SubSeq(s, Len(s) - Len(suffix) + 1, Len(s)) = suffix

\* urlparse(url).path : what follows scheme and host.
urlpath(url) == IF url # <<>> /\ url[1] = HOST THEN Tail(url) ELSE url

\* os.path.basename(path)
basename(path) == SubSeq(path, LastIndexOf(path, "/") + 1, Len(path))

\* os.path.splitext(filename) : <<name, ext>>; the extension starts at the
\* last dot, unless that dot leads the name.
splitext(filename) ==
    LET dot == LastIndexOf(filename, ".")
    IN  IF dot <= 1 THEN <<filename, <<>> >>
        ELSE <<SubSeq(filename, 1, dot - 1), SubSeq(filename, dot, Len(filename))>>

\* os.path.join(out_dir, unique_filename)
path_join(dir, name) == dir \o <<"/">> \o name

\* urljoin(base, href)
urljoin(base, href) ==
    IF href # <<>> /\ href[1] = HOST THEN href
    ELSE IF href # <<>> /\ href[1] = "/" THEN <<HOST>> \o href
    ELSE SubSeq(base, 1, LastIndexOf(base, "/")) \o href

PDF_SUFFIX == <<".", "p", "d", "f">>


(***************************************************************************)
(* The served site: what a successful GET of a page may return.            *)
(***************************************************************************)
\* href values of the anchors of the index page: one absolute path, one
\* relative path.
IndexHrefs == {<<"/", "a", "/", "i">>, <<"b", "/", "i">>}

\* href values of the anchors of a subpage: a relative upper-case PDF (a
\* different document on each subpage, same basename), the same document
\* of subpage /a/i as a full URL, and a link that only contains ".pdf".
SubHrefs ==
    { <<"x", ".", "P", "D", "F">>,
      <<HOST, "/", "a", "/", "x", ".", "P", "D", "F">>,
      <<"/", "a", "/", "x", ".", "p", "d", "f", ".", "h", "t", "m", "l">> }

\* A parsed document: whether it has <div id="content">, and the href of
\* each <a href> inside it, in document order.
HtmlDocs(hrefs) == [content : BOOLEAN, hrefs : SeqsUpTo(hrefs, MaxLinks)]

Served(url) == IF url = BASE_URL THEN HtmlDocs(IndexHrefs) ELSE HtmlDocs(SubHrefs)

\* The ways one attempt fails: async_timeout expiry, raise_for_status,
\* a connection error, a local file error.
Failures == {"TimeoutError", "ClientResponseError", "ClientConnectionError", "OSError"}

\* Whether the output file already exists when an attempt of download_file
\* fails with e: raise_for_status runs before aiofiles.open, the other
\* failures can strike before or after it.
FileOpenedBefore(e) == IF e = "ClientResponseError" THEN {FALSE} ELSE BOOLEAN

(***************************************************************************)
(* retry_async: the tenacity policy.                                       *)
(***************************************************************************)
\* Mutant of stop_after_attempt: one attempt too many.
stop_after_six(attempt) == attempt > STOP_ATTEMPTS

\* stop_after_attempt(5): stop once the attempt just made is the 5th.
stop_after_attempt(attempt) == attempt >= STOP_ATTEMPTS

\* Mutant of wait_exponential: the exponent one too high (2, 4, 8, 10).
wait_exponential_shifted(attempt) ==
    Max(Max(0, WAIT_MIN), Min(WAIT_MULTIPLIER * Pow2(attempt), WAIT_MAX))

\* wait_exponential(multiplier=1, min=1, max=10) after the attempt-th try.
wait_exponential(attempt) ==
    Max(Max(0, WAIT_MIN), Min(WAIT_MULTIPLIER * Pow2(attempt - 1), WAIT_MAX))

\* reraise=True: what the caller sees is the last attempt's own exception.
raised_exception(last) == last

\* `except RetryError` in scrape().
except_RetryError(exc) == exc = "RetryError"

(***************************************************************************)
(* random_string: the outcomes the model draws from (two of the 62^12).    *)
(***************************************************************************)
random_string(length) == {[i \in 1..length |-> c] : c \in {"a", "Z"}}

\* unique_filename = f"{name}_{random_string(12)}{ext}"
unique_filename(url, rnd) ==
    LET parts == splitext(basename(urlpath(url)))
    IN  parts[1] \o <<"_">> \o rnd \o parts[2]

(***************************************************************************)
(* asyncio.Semaphore                                                       *)
(***************************************************************************)
\* Mutant of locked: the semaphore never blocks.
never_locked(value, queue) == FALSE

\* Mutant of release: the slot is not given back.
release_leaks(value) == value

\* Semaphore.locked(): no slot, or somebody queued before us.
locked(value, queue) == value = 0 \/ queue # <<>>

\* Semaphore.release()
release(value) == value + 1

(***************************************************************************)
(* scrape(): link extraction and the target set.                           *)
(***************************************************************************)
\* get_links_in_content, after the fetch: [] without the content div,
\* else every href resolved against the page URL.
get_links_in_content(url, html) ==
    IF ~html.content THEN <<>>
    ELSE [i \in 1..Len(html.hrefs) |-> urljoin(url, html.hrefs[i])]

\* url.lower().endswith(".pdf")
is_pdf(url) == endswith(lower(url), PDF_SUFFIX)

\* The generator `url for url in sub_links if ...`
pdf_filter(sub_links) == SelectSeq(sub_links, is_pdf)

\* Mutant of set_update: a list that is extended, duplicates kept.
list_extend(links, urls) ==
    [u \in DOMAIN links \cup Range(urls) |->
        (IF u \in DOMAIN links THEN links[u] ELSE 0)
        + Cardinality({i \in 1..Len(urls) : urls[i] = u})]

\* pdf_links.update(urls) on a set, kept as a bag whose counts stay 1.
set_update(links, urls) == [u \in DOMAIN links \cup Range(urls) |-> 1]

\* Whether update(urls) meets a URL the set already holds, or one URL twice.
met_again(links, urls) ==
    \/ \E i \in 1..Len(urls) : urls[i] \in DOMAIN links
    \/ \E i, j \in 1..Len(urls) : i # j /\ urls[i] = urls[j]

\* Mutant of loop_exhausted: the discovery loop is left after one subpage.
loop_left_early(pages, i) == i > Len(pages) \/ i > 1

\* `for link_page in links_pages` has no page left at position i.
loop_exhausted(pages, i) == i > Len(pages)

\* Mutant of log_append: the append is lost.
log_append_lost(log, entry) == log

\* Mutant of log_append: the entry is put in front.
log_prepend(log, entry) == <<entry>> \o log

\* download_log.append(entry)
log_append(log, entry) == Append(log, entry)

\* The elements of the set, one per copy, in a fixed order (tasks are
\* created in iteration order; every task starts with its own sleep).
RECURSIVE BagToSeq(_)
BagToSeq(b) ==
    IF DOMAIN b = {} THEN <<>>
    ELSE LET u == CHOOSE u \in DOMAIN b : TRUE
             rest == IF b[u] > 1 THEN [b EXCEPT ![u] = @ - 1]
                     ELSE [v \in DOMAIN b \ {u} |-> b[v]]
         IN  <<u>> \o BagToSeq(rest)

(***************************************************************************)
(* State.                                                                  *)
(***************************************************************************)
VARIABLES
    pc,            \* where scrape() is (main.py:162-206)
    session,       \* the aiohttp.ClientSession of line 175: "none", "open", "closed"
    links_pages,   \* scrape(): links_pages (line 177)
    idx,           \* position of the loop of line 180 in links_pages
    pdf_links,     \* scrape(): pdf_links (line 179)
    tasks,         \* 0: the fetch_html call of scrape(); 1..n: tasks (lines 190-193)
    sem,           \* slots of sem that are free (line 61)
    waiters,       \* tasks queued in sem.acquire(), first come first served
    completed,     \* as_completed (line 196): finished tasks not yet yielded
    awaited,       \* as_completed: tasks yielded so far
    download_log,  \* the global download_log (line 62)
    files,         \* files under OUTPUT_DIR (line 137)
    log_writes,    \* times LOG_FILE was written (lines 204-205)
    log_file,      \* content of LOG_FILE
    scrape_exc,    \* the exception scrape() ended with, and the line it came from
    relinked,      \* history: update() (line 183) met a URL the set held, or one twice
    scanned        \* history: every link of sub_links (line 182) so far

vars == <<pc, session, links_pages, idx, pdf_links, tasks, sem, waiters, completed,
          awaited, download_log, files, log_writes, log_file, scrape_exc, relinked,
          scanned>>

NoCall ==
    [fn |-> "none", url |-> <<>>, pc |-> "idle", attempt |-> 0, waited |-> 0,
     filename |-> <<>>, exc |-> "none"]

\* A decorated coroutine called: first attempt, suspended in its sleep.
NewCall(fn, url) ==
    [fn |-> fn, url |-> url, pc |-> "sleep", attempt |-> 1, waited |-> 0,
     filename |-> <<>>, exc |-> "none"]

NoExc == [line |-> 0, exc |-> "none"]

Init ==
    /\ pc = "start"
    /\ session = "none"
    /\ links_pages = <<>>
    /\ idx = 0
    /\ pdf_links = EmptyBag
    /\ tasks = [i \in {0} |-> NoCall]
    /\ sem = CONCURRENT_REQUESTS
    /\ waiters = <<>>
    /\ completed = <<>>
    /\ awaited = 0
    /\ download_log = <<>>
    /\ files = {}
    /\ log_writes = 0
    /\ log_file = <<>>
    /\ scrape_exc = NoExc
    /\ relinked = FALSE
    /\ scanned = {}


(***************************************************************************)
(* Derived notions.                                                        *)
(***************************************************************************)
Downloads == DOMAIN tasks \ {0}

\* Inside `async with sem`.
InFlight(ts) == {c \in DOMAIN ts : ts[c].pc = "get"}

\* Not finished: asleep, queued on the semaphore, or in an attempt.
Pending(ts) == {c \in DOMAIN ts : ts[c].pc \in {"sleep", "acquire", "get", "backoff"}}

\* Mutant of put_file: nothing reaches the disk.
put_file_dropped(fs, path, url, complete) == fs

\* open(filepath, "wb"): the file at path is replaced.
put_file(fs, path, url, complete) ==
    {f \in fs : f.path # path} \cup {[path |-> path, url |-> url, complete |-> complete]}

\* tenacity after a failed attempt: give up with the exception, or sleep.
after_failure(call, e) ==
    IF stop_after_attempt(call.attempt)
    THEN [call EXCEPT !.pc = "raised", !.exc = raised_exception(e), !.filename = <<>>]
    ELSE [call EXCEPT !.pc = "backoff", !.exc = e, !.filename = <<>>,
                      !.waited = @ + wait_exponential(call.attempt)]

\* asyncio.run after scrape() raised: every pending task is cancelled.
cancel_all(ts) ==
    [c \in DOMAIN ts |->
        IF c \in Pending(ts) THEN [ts[c] EXCEPT !.pc = "cancelled"] ELSE ts[c]]

(***************************************************************************)
(* scrape() ends with an exception: the session context exits, asyncio.run *)
(* cancels what is still pending (a cancelled attempt releases its slot,   *)
(* and may leave the file it had opened).                                  *)
(***************************************************************************)
scrape_raises(line, e, ts, value) ==
    /\ pc' = "raised"
    /\ scrape_exc' = [line |-> line, exc |-> e]
    /\ session' = IF session = "open" THEN "closed" ELSE session
    /\ tasks' = cancel_all(ts)
    /\ sem' = value + Cardinality(InFlight(ts))
    /\ waiters' = <<>>
    /\ \E opened \in SUBSET (InFlight(ts) \ {0}) :
         files' = files \cup
                    {[path |-> path_join(OUTPUT_DIR, ts[c].filename), url |-> ts[c].url,
                      complete |-> FALSE] : c \in {d \in opened :
                          \A f \in files : f.path # path_join(OUTPUT_DIR, ts[d].filename)}}

(***************************************************************************)
(* scrape() goes on after a page was handled (lines 177-201): the next     *)
(* subpage, or task creation and the as_completed loop.                    *)
(***************************************************************************)
scrape_continue(pages, i, links, value) ==
    /\ links_pages' = pages
    /\ idx' = i
    /\ pdf_links' = links
    /\ sem' = value
    /\ IF ~loop_exhausted(pages, i)
       THEN /\ pc' = "discover"
            /\ tasks' = [tasks EXCEPT ![0] = NewCall("fetch_html", pages[i])]
            /\ session' = session
       ELSE LET urls == BagToSeq(links)
            IN  /\ tasks' = [c \in 0..Len(urls) |->
                               IF c = 0 THEN NoCall ELSE NewCall("download_file", urls[c])]
                /\ pc' = IF urls = <<>> THEN "write_log" ELSE "await_tasks"
                /\ session' = IF urls = <<>> THEN "closed" ELSE session

(***************************************************************************)
(* scrape() lines 174-177: makedirs, the session, the index fetch begins.  *)
(***************************************************************************)
scrape_start ==
    /\ pc = "start"
    /\ \E outcome \in {"ok", "OSError"} :
         IF outcome = "ok"
         THEN /\ pc' = "index"
              /\ session' = "open"
              /\ tasks' = [tasks EXCEPT ![0] = NewCall("fetch_html", BASE_URL)]
              /\ UNCHANGED scrape_exc
         ELSE /\ pc' = "raised"
              /\ scrape_exc' = [line |-> 174, exc |-> outcome]
              /\ UNCHANGED <<session, tasks>>
    /\ UNCHANGED <<links_pages, idx, pdf_links, sem, waiters, completed, awaited,
                   download_log, files, log_writes, log_file, relinked, scanned>>

(***************************************************************************)
(* fetch_html line 104-105 / download_file lines 127-133: the jitter sleep *)
(* is over; download_file names its file; then `async with sem`: take a    *)
(* slot, or queue.                                                         *)
(***************************************************************************)
sleep_done(c) ==
    /\ tasks[c].pc = "sleep"
    /\ \E rnd \in random_string(SUFFIX_LENGTH) :
         LET name == IF tasks[c].fn = "download_file"
                     THEN unique_filename(tasks[c].url, rnd) ELSE <<>>
         IN  IF locked(sem, waiters)
             THEN /\ tasks' = [tasks EXCEPT ![c].pc = "acquire", ![c].filename = name]
                  /\ waiters' = Append(waiters, c)
                  /\ sem' = sem
             ELSE /\ tasks' = [tasks EXCEPT ![c].pc = "get", ![c].filename = name]
                  /\ sem' = sem - 1
                  /\ waiters' = waiters
    /\ UNCHANGED <<pc, session, links_pages, idx, pdf_links, completed, awaited,
                   download_log, files, log_writes, log_file, scrape_exc, relinked, scanned>>

(***************************************************************************)
(* Semaphore.acquire of a queued task: the first waiter is woken once a    *)
(* slot is free.  A slot released while somebody waits counts as free      *)
(* until the waiter runs; no newcomer can take it (see locked).            *)
(***************************************************************************)
sem_wakeup(c) ==
    /\ tasks[c].pc = "acquire"
    /\ waiters # <<>> /\ Head(waiters) = c
    /\ sem > 0
    /\ sem' = sem - 1
    /\ waiters' = Tail(waiters)
    /\ tasks' = [tasks EXCEPT ![c].pc = "get"]
    /\ UNCHANGED <<pc, session, links_pages, idx, pdf_links, completed, awaited,
                   download_log, files, log_writes, log_file, scrape_exc, relinked, scanned>>

(***************************************************************************)
(* tenacity: the backoff sleep is over, the function is called again.      *)
(***************************************************************************)
backoff_done(c) ==
    /\ tasks[c].pc = "backoff"
    /\ tasks' = [tasks EXCEPT ![c].pc = "sleep", ![c].attempt = @ + 1, ![c].exc = "none"]
    /\ UNCHANGED <<pc, session, links_pages, idx, pdf_links, sem, waiters, completed,
                   awaited, download_log, files, log_writes, log_file, scrape_exc, relinked, scanned>>

(***************************************************************************)
(* fetch_html lines 105-109: the attempt of scrape()'s page fetch ends.    *)
(* On success get_links_in_content parses the page and scrape() goes on;   *)
(* on the last failure the exception reaches scrape() (line 177 outside    *)
(* any try, line 182 inside `try ... except RetryError`).                  *)
(***************************************************************************)
fetch_html_attempt_end ==
    /\ tasks[0].pc = "get"
    /\ \E outcome \in {"ok"} \cup Failures :
         IF outcome = "ok"
         THEN /\ \E html \in Served(tasks[0].url) :
                   LET links == get_links_in_content(tasks[0].url, html)
                   IN  IF pc = "index"
                       THEN /\ scrape_continue(links, 1, pdf_links, release(sem))
                            /\ UNCHANGED <<relinked, scanned>>
                       ELSE /\ scrape_continue(links_pages, idx + 1,
                                 set_update(pdf_links, pdf_filter(links)), release(sem))
                            /\ relinked' = (relinked \/ met_again(pdf_links, pdf_filter(links)))
                            /\ scanned' = scanned \cup Range(links)
              /\ UNCHANGED <<waiters, files, scrape_exc>>
         ELSE LET call == after_failure(tasks[0], outcome)
              IN  IF call.pc # "raised"
                  THEN /\ tasks' = [tasks EXCEPT ![0] = call]
                       /\ sem' = release(sem)
                       /\ UNCHANGED <<pc, session, links_pages, idx, pdf_links, waiters,
                                      files, scrape_exc, relinked, scanned>>
                  ELSE IF pc = "discover" /\ except_RetryError(call.exc)
                  THEN /\ scrape_continue(links_pages, idx + 1, pdf_links, release(sem))
                       /\ UNCHANGED <<waiters, files, scrape_exc, relinked, scanned>>
                  ELSE /\ scrape_raises(IF pc = "index" THEN 177 ELSE 182, call.exc,
                                        [tasks EXCEPT ![0] = call], release(sem))
                       /\ UNCHANGED <<links_pages, idx, pdf_links, relinked, scanned>>
    /\ UNCHANGED <<completed, awaited, download_log, log_writes, log_file>>

(***************************************************************************)
(* download_file lines 133-141: the attempt of a download task ends.       *)
(* Success: the file is written, the slot released, the log appended, the  *)
(* task is done.  Failure: the slot is released; the file may have been    *)
(* opened already; tenacity sleeps or gives up, and then the task is done  *)
(* with the exception.                                                     *)
(***************************************************************************)
download_file_attempt_end(c) ==
    /\ c # 0
    /\ tasks[c].pc = "get"
    /\ LET path == path_join(OUTPUT_DIR, tasks[c].filename)
       IN  \E outcome \in {"ok"} \cup Failures :
             IF outcome = "ok"
             THEN /\ files' = put_file(files, path, tasks[c].url, TRUE)
                  /\ download_log' = log_append(download_log,
                        [url |-> tasks[c].url, filename |-> tasks[c].filename])
                  /\ tasks' = [tasks EXCEPT ![c].pc = "returned"]
                  /\ completed' = Append(completed, c)
             ELSE LET call == after_failure(tasks[c], outcome)
                  IN  /\ \E opened \in FileOpenedBefore(outcome) :
                           files' = IF opened
                                    THEN put_file(files, path, tasks[c].url, FALSE)
                                    ELSE files
                      /\ tasks' = [tasks EXCEPT ![c] = call]
                      /\ completed' = IF call.pc = "raised" THEN Append(completed, c)
                                      ELSE completed
                      /\ download_log' = download_log
    /\ sem' = release(sem)
    /\ UNCHANGED <<pc, session, links_pages, idx, pdf_links, waiters, awaited,
                   log_writes, log_file, scrape_exc, relinked, scanned>>

(***************************************************************************)
(* scrape() lines 195-201: as_completed yields the next finished task and  *)
(* `await f` returns its result or raises its exception; after the last    *)
(* one the session context exits.                                          *)
(***************************************************************************)
as_completed_next ==
    /\ pc = "await_tasks"
    /\ completed # <<>>
    /\ LET t == Head(completed)
       IN  IF tasks[t].pc = "raised" /\ ~except_RetryError(tasks[t].exc)
           THEN /\ scrape_raises(199, tasks[t].exc, tasks, sem)
                /\ awaited' = awaited
           ELSE /\ awaited' = awaited + 1
                /\ pc' = IF awaited + 1 = Cardinality(Downloads) THEN "write_log" ELSE pc
                /\ session' = IF awaited + 1 = Cardinality(Downloads) THEN "closed"
                              ELSE session
                /\ UNCHANGED <<tasks, sem, waiters, files, scrape_exc>>
    /\ completed' = Tail(completed)
    /\ UNCHANGED <<links_pages, idx, pdf_links, download_log, log_writes, log_file, relinked, scanned>>

(***************************************************************************)
(* scrape() lines 203-206: the log file is written.                        *)
(***************************************************************************)
write_log ==
    /\ pc = "write_log"
    /\ \E outcome \in {"ok", "OSError"} :
         IF outcome = "ok"
         THEN /\ log_file' = download_log
              /\ log_writes' = log_writes + 1
              /\ pc' = "done"
              /\ UNCHANGED scrape_exc
         ELSE /\ pc' = "raised"
              /\ scrape_exc' = [line |-> 204, exc |-> outcome]
              /\ UNCHANGED <<log_file, log_writes>>
    /\ UNCHANGED <<session, links_pages, idx, pdf_links, tasks, sem, waiters, completed,
                   awaited, download_log, files, relinked, scanned>>

Next ==
    \/ scrape_start
    \/ \E c \in DOMAIN tasks : sleep_done(c)
    \/ \E c \in DOMAIN tasks : sem_wakeup(c)
    \/ \E c \in DOMAIN tasks : backoff_done(c)
    \/ fetch_html_attempt_end
    \/ \E c \in DOMAIN tasks : download_file_attempt_end(c)
    \/ as_completed_next
    \/ write_log

Spec == Init /\ [][Next]_vars

\* The event loop runs every callback that is ready, and every attempt ends
\* (response, error or the timeout of line 106/134): a step that can be
\* taken is taken.
LiveSpec == Spec /\ WF_vars(Next)


(***************************************************************************)
(* Properties.                                                             *)
(***************************************************************************)
\* A download task that reached an outcome of its own: it returned, or it
\* raised after its last attempt.
Terminal(c) == tasks[c].pc \in {"returned", "raised"}

LogUrls(log) == {log[i].url : i \in 1..Len(log)}

\* C1: in every reachable state the number of calls inside `async with sem`
\* (page fetches and downloads together) is at most the limiter capacity.
C1_InFlightWithinCapacity == Cardinality(InFlight(tasks)) <= CONCURRENT_REQUESTS

\* C1 witness: more download tasks than slots, every slot in use and a task
\* queued on the semaphore.
C1_Witness ==
    /\ Cardinality(Downloads) > CONCURRENT_REQUESTS
    /\ Cardinality(InFlight(tasks)) = CONCURRENT_REQUESTS
    /\ \E c \in Downloads : tasks[c].pc = "acquire"

\* C2 (as claimed): when some downloads succeed and others fail all their
\* attempts, scrape() does not end with a download's exception, and the log
\* file it writes holds exactly the entries of the downloads that succeeded.
C2_BestEffortDownloads ==
    /\ pc = "raised" => scrape_exc.line # 199
    /\ pc = "done" =>
         /\ log_file = download_log
         /\ LogUrls(log_file) = {tasks[c].url : c \in {d \in Downloads : tasks[d].pc = "returned"}}

\* C3 (as claimed): a subpage whose fetch fails on all attempts is given up
\* alone; scrape() never ends with the exception of a subpage fetch.
C3_SubpageFailureCaught ==
    (tasks[0].fn = "fetch_html" /\ tasks[0].pc = "raised" /\ tasks[0].url # BASE_URL)
        => (pc # "raised" /\ scrape_exc = NoExc)

\* C4 (as claimed): once the download phase is over (the session is closed)
\* every launched download task has returned or has raised after its last
\* attempt; none was cut short.
C4_WaitsForAllTasks ==
    (session = "closed" /\ Downloads # {}) => \A c \in Downloads : Terminal(c)

\* C5 (as claimed): the log file is written at most once and only when all
\* download tasks are terminal, and a run that got past the index page and
\* whose log path is writable ends with the log written exactly once.
C5_LogWrittenOnce ==
    /\ log_writes <= 1
    /\ log_writes = 1 => \A c \in Downloads : Terminal(c)
    /\ (pc \in {"done", "raised"} /\ scrape_exc.line \notin {174, 177, 204})
         => log_writes = 1

\* C6: no call makes more than 5 attempts; a failed attempt with attempts
\* left leads to a backoff whatever the failure was; a call that gave up did
\* so on its 5th attempt and carries that attempt's exception; a call that
\* returned carries none.
C6_AtMostFiveAttempts ==
    \A c \in DOMAIN tasks :
        /\ tasks[c].attempt <= 5
        /\ tasks[c].pc = "backoff" => (tasks[c].attempt < 5 /\ tasks[c].exc \in Failures)
        /\ tasks[c].pc = "raised" => (tasks[c].attempt = 5 /\ tasks[c].exc \in Failures)
        /\ tasks[c].pc = "returned" => tasks[c].exc = "none"

\* C6 witness: a download gave up on a timeout of its 5th attempt.
C6_Witness ==
    \E c \in Downloads :
        tasks[c].pc = "raised" /\ tasks[c].attempt = 5 /\ tasks[c].exc = "TimeoutError"

\* The backoff sequence of the claim and the sum of its first n waits.
ClaimedWaits == <<1, 2, 4, 8>>

RECURSIVE SumFirst(_, _)
SumFirst(s, n) == IF n = 0 THEN 0 ELSE s[n] + SumFirst(s, n - 1)

\* C7: the backoff slept after the k-th failed attempt is 1, 2, 4, 8 seconds
\* for k = 1..4: every call has slept exactly the first waits of that
\* sequence, one per failed attempt, and a call that returns from its 5th
\* attempt has made 4 retries and slept 15 seconds of backoff (the jitter
\* sleeps, each >= 0, come on top).
C7_BackoffSequence ==
    \A c \in DOMAIN tasks :
        tasks[c].pc \in {"sleep", "acquire", "get", "backoff", "returned", "raised"} =>
            LET failed == IF tasks[c].pc = "backoff" THEN tasks[c].attempt
                          ELSE tasks[c].attempt - 1
            IN  /\ failed <= 4
                /\ tasks[c].waited = SumFirst(ClaimedWaits, failed)
                /\ (tasks[c].pc = "returned" /\ tasks[c].attempt = 5) => tasks[c].waited >= 15

\* C7 witness: a download returned from its 5th attempt.
C7_Witness ==
    \E c \in Downloads :
        tasks[c].pc = "returned" /\ tasks[c].attempt = 5 /\ tasks[c].waited = 15

\* C8: free slots plus slots held by attempts in flight is the capacity, and
\* when no task is pending every slot is free.
C8_NoSlotLeak ==
    /\ sem + Cardinality(InFlight(tasks)) = CONCURRENT_REQUESTS
    /\ Pending(tasks) = {} => sem = CONCURRENT_REQUESTS

\* C8 witness: the run is over after an attempt ended on each exit path is
\* possible; here one download gave up on a file error, another returned
\* after a retry, and every slot is free.
C8_Witness ==
    /\ Pending(tasks) = {}
    /\ sem = CONCURRENT_REQUESTS
    /\ \E c, d \in Downloads :
         /\ tasks[c].pc = "raised" /\ tasks[c].exc = "OSError"
         /\ tasks[d].pc = "returned" /\ tasks[d].attempt > 1

\* C9 (as claimed): two logged downloads of distinct URLs with the same
\* basename have different filenames, and each one's file holds its own
\* complete content.
C9_DistinctFiles ==
    \A i, j \in 1..Len(download_log) :
        (/\ i # j
         /\ download_log[i].url # download_log[j].url
         /\ basename(urlpath(download_log[i].url)) = basename(urlpath(download_log[j].url)))
        => /\ download_log[i].filename # download_log[j].filename
           /\ [path |-> path_join(OUTPUT_DIR, download_log[i].filename),
               url |-> download_log[i].url, complete |-> TRUE] \in files

\* C10: the target set holds each URL once, one download task exists per
\* URL of the set, and the log (in memory and on disk) holds at most one
\* entry per URL.
C10_TargetsDeduplicated ==
    /\ \A u \in DOMAIN pdf_links : pdf_links[u] = 1
    /\ \A c, d \in Downloads : tasks[c].url = tasks[d].url => c = d
    /\ Downloads # {} => {tasks[c].url : c \in Downloads} = DOMAIN pdf_links
    /\ \A i, j \in 1..Len(download_log) :
         download_log[i].url = download_log[j].url => i = j
    /\ \A i, j \in 1..Len(log_file) : log_file[i].url = log_file[j].url => i = j

\* C10 witness: the one target was linked more than once, one task was
\* launched for it, and the written log holds its one entry.
C10_Witness ==
    /\ relinked
    /\ Cardinality(DOMAIN pdf_links) = 1
    /\ Cardinality(Downloads) = 1
    /\ pc = "done"
    /\ Len(log_file) = 1


LoggedPaths == {path_join(OUTPUT_DIR, download_log[i].filename) : i \in 1..Len(download_log)}

\* C11: whenever download tasks exist, discovery is over: the loop has gone
\* past every subpage, no page fetch is in progress, and the target set is
\* still the set the tasks were created from.
C11_DownloadsAfterDiscovery ==
    Downloads # {} =>
        /\ pc \notin {"start", "index", "discover"}
        /\ idx = Len(links_pages) + 1
        /\ tasks[0].pc = "idle"
        /\ {tasks[c].url : c \in Downloads} = DOMAIN pdf_links

\* C11 witness: two subpages were listed and the two download tasks have
\* just been created.
C11_Witness ==
    /\ Len(links_pages) = 2
    /\ Cardinality(Downloads) = 2
    /\ \A c \in Downloads : tasks[c].pc = "sleep" /\ tasks[c].attempt = 1

\* C12 (as claimed): every entry of download_log names a file that is
\* completely written, and the URL of a task that failed has no entry.
C12_LoggedFilesComplete ==
    /\ \A i \in 1..Len(download_log) :
         \E f \in files : /\ f.path = path_join(OUTPUT_DIR, download_log[i].filename)
                          /\ f.complete
    /\ \A c \in Downloads :
         tasks[c].pc = "raised" => tasks[c].url \notin LogUrls(download_log)

EndsInPdfAnyCase(u) ==
    /\ Len(u) >= 4
    /\ u[Len(u) - 3] = "."
    /\ u[Len(u) - 2] \in {"p", "P"}
    /\ u[Len(u) - 1] \in {"d", "D"}
    /\ u[Len(u)] \in {"f", "F"}

\* C14: the log holds exactly one entry for each download task that has
\* returned and none for any other, and the target set holds every matching
\* link of every subpage scanned so far.
C14_NoLostUpdate ==
    /\ \A c \in Downloads :
         Cardinality({i \in 1..Len(download_log) :
                         download_log[i] = [url |-> tasks[c].url,
                                            filename |-> tasks[c].filename]})
           = IF tasks[c].pc = "returned" THEN 1 ELSE 0
    /\ Len(download_log) = Cardinality({c \in Downloads : tasks[c].pc = "returned"})
    /\ \A u \in scanned : EndsInPdfAnyCase(u) => u \in DOMAIN pdf_links

\* C14 witness: two downloads have completed before scrape() took notice of
\* either, and both entries are in the log.
C14_Witness ==
    /\ Len(completed) = 2
    /\ Len(download_log) = 2
    /\ download_log[1].url # download_log[2].url

\* C15: every step leaves the log as it was or extends it at the end, and
\* the entry of a task that returns in a step is the last one after it.
C15_AppendOnlyCompletionOrder ==
    [][/\ Len(download_log') >= Len(download_log)
       /\ SubSeq(download_log', 1, Len(download_log)) = download_log
       /\ \A c \in DOMAIN tasks \cap DOMAIN tasks' :
            (tasks[c].pc # "returned" /\ tasks'[c].pc = "returned") =>
                /\ Len(download_log') = Len(download_log) + 1
                /\ download_log'[Len(download_log')].url = tasks[c].url
       /\ log_writes' # log_writes => log_file' = download_log]_vars

\* C15 witness: the second task completed first; its entry comes first.
C15_Witness ==
    /\ Len(download_log) = 2
    /\ Cardinality(Downloads) = 2
    /\ download_log[1].url = tasks[2].url
    /\ download_log[2].url = tasks[1].url

\* C16 (as claimed): scrape() ends with an exception only when the output
\* directory (line 174) or the log file (line 204) cannot be written.
C16_OnlyLocalFailuresFatal ==
    pc = "raised" => scrape_exc.line \in {174, 204}

\* C17: the slots in use are exactly as many as the calls inside an attempt;
\* a call in its jitter sleep or backoff sleep holds none: with no attempt
\* in flight every slot is free, and a call queued on the semaphore always
\* has a free slot or an attempt in flight that will free one.
C17_SleepersHoldNoSlot ==
    /\ CONCURRENT_REQUESTS - sem = Cardinality({c \in DOMAIN tasks : tasks[c].pc = "get"})
    /\ (\A c \in DOMAIN tasks : tasks[c].pc \notin {"get"}) => sem = CONCURRENT_REQUESTS
    /\ waiters # <<>> => (sem > 0 \/ \E c \in DOMAIN tasks : tasks[c].pc = "get")

\* C17 witness: one download sleeps in its backoff while the other one
\* holds the last slot.
C17_Witness ==
    \E c, d \in Downloads :
        /\ tasks[c].pc = "backoff"
        /\ tasks[d].pc = "get"
        /\ sem = 0

\* C18: a link scanned on a subpage is in the target set exactly when it
\* ends in ".pdf" in any letter case, and the set holds scanned links only.
C18_SuffixFilter ==
    /\ \A u \in scanned : (u \in DOMAIN pdf_links) <=> EndsInPdfAnyCase(u)
    /\ DOMAIN pdf_links \subseteq scanned

\* C18 witness: a link ending in ".PDF" was taken, a link ending in
\* ".pdf.html" was scanned and left out.
C18_Witness ==
    /\ \E u \in scanned : u[Len(u)] = "F" /\ u \in DOMAIN pdf_links
    /\ \E u \in scanned :
         /\ endswith(u, <<".", "p", "d", "f", ".", "h", "t", "m", "l">>)
         /\ u \notin DOMAIN pdf_links

\* Steps a call can still take: 4 per attempt it has not begun, and what is
\* left of the attempt it is in (sleep, queue, attempt, backoff).
CallSteps(call) ==
    IF call.pc \notin {"sleep", "acquire", "get", "backoff"} THEN 0
    ELSE (STOP_ATTEMPTS - call.attempt) * 4
         + (CASE call.pc = "sleep" -> 4
              [] call.pc = "acquire" -> 3
              [] call.pc = "get" -> 2
              [] call.pc = "backoff" -> 1)

RECURSIVE SumCallSteps(_, _)
SumCallSteps(ts, n) ==
    IF n < 0 THEN 0 ELSE CallSteps(ts[n]) + SumCallSteps(ts, n - 1)

\* An upper bound of the steps the run can still take: those of the calls
\* in progress, 21 for every page still to fetch and for every download
\* still to be created (a page holds at most MaxLinks links), one for every
\* task as_completed has not yielded, one for the log.
Variant ==
    LET calls == SumCallSteps(tasks, Cardinality(DOMAIN tasks) - 1)
    IN  CASE pc = "start" -> 22 + MaxLinks * 21 + MaxLinks * MaxLinks * 21
          [] pc = "index" -> calls + 1 + MaxLinks * 21 + MaxLinks * MaxLinks * 21
          [] pc = "discover" ->
                calls + 1 + (Len(links_pages) - idx) * 21
                + (Cardinality(DOMAIN pdf_links)
                   + (Len(links_pages) - idx + 1) * MaxLinks) * 21
          [] pc = "await_tasks" -> calls + 1 + (Cardinality(Downloads) - awaited)
          [] pc = "write_log" -> 1
          [] OTHER -> 0

\* Some step can be taken: scrape() can start or write the log, a call's
\* sleep, backoff or attempt can end, the first call queued on the
\* semaphore has a free slot, or as_completed has a finished task to yield.
CanStep ==
    \/ pc \in {"start", "write_log"}
    \/ \E c \in DOMAIN tasks : tasks[c].pc \in {"sleep", "backoff", "get"}
    \/ waiters # <<>> /\ sem > 0 /\ tasks[Head(waiters)].pc = "acquire"
    \/ pc = "await_tasks" /\ completed # <<>>

\* C19: scrape() terminates and leaves no call waiting or retrying forever:
\* as long as scrape() has not ended some step can be taken (nothing is
\* stuck on the semaphore), when it has ended no call is pending, and every
\* step lowers Variant, a natural number; so under LiveSpec, where a step
\* that can be taken is taken, every run ends after finitely many steps.
C19_Terminates ==
    /\ [](pc \in {"done", "raised"} \/ CanStep)
    /\ [](pc \in {"done", "raised"} => Pending(tasks) = {})
    /\ [](Variant >= 0)
    /\ [][Variant' < Variant]_vars

\* C19 witness: a run with more downloads than slots has ended, one of the
\* downloads on its last attempt.
C19_Witness ==
    /\ pc = "done"
    /\ Cardinality(Downloads) > CONCURRENT_REQUESTS
    /\ \E c \in Downloads : tasks[c].attempt = 5 /\ tasks[c].pc = "returned"

====
